---- MODULE Spec2Model ----
(***************************************************************************)
(* A model of the rendering core of absolutris (src/absolutris.py):        *)
(* the dirty-rectangle tracker Rectlist, the Tile/Playfield grid with its  *)
(* blit, clear and piece-placement operations, the per-frame drain of the  *)
(* tracker and the main loop of Game.run_game with its event handlers;     *)
(* and of the gui choice and loop of src/absolutris/game.py.               *)
(*                                                                         *)
(* A Rectlist object is a record [items, max_items, added_items]; a Tile   *)
(* is represented by its hold (the sequence of images blitted onto it) and *)
(* identified by its grid index <<row, column>>.  An exception raised by   *)
(* a call is recorded in the variable raised.                              *)
(***************************************************************************)
EXTENDS Integers, Sequences, FiniteSets, TLC

VARIABLES
    rects_to_update,  \* the shared Rectlist: [items, max_items, added_items]
    drained,          \* the items deleted by the last drain, in deletion order
    raised,           \* the exception raised by the last call, or "none"
    pf,               \* "none" (no Playfield yet), "ready", "failed" (__init__ raised)
    tile_array,       \* <<row, column>> -> hold of the Tile at that index
    shape,            \* tile_array.shape: <<rows, columns>>
    spawn_row,        \* Playfield.spawn_row
    spawn_column,     \* Playfield.spawn_column
    written,          \* writer -> the appendr calls it has made since the last drain
    pygame_running,   \* Game.pygame_running
    pc,               \* where the program stands: "idle", or a point of Game.run_game / run
    events,           \* the types of the events of the batch of pygame.event.get() not yet iterated
    random_number,    \* the local random_number of run_game: the last spawn_next(), or -1
    gui               \* config.cli.gui, the gui name run was started with, or "unset"

tracker_vars == <<rects_to_update, drained>>
field_vars == <<pf, tile_array, shape, spawn_row, spawn_column>>
run_vars == <<pygame_running, pc, events, random_number, gui>>
loop_vars == <<written, pygame_running, pc, events, random_number, gui>>
vars == <<rects_to_update, drained, raised, pf, tile_array, shape, spawn_row, spawn_column,
          written, pygame_running, pc, events, random_number, gui>>

----------------------------------------------------------------------------
(* Bounds of the model *)

\* longest pending list an append may produce
MaxPending == 3
\* largest value added_items may reach
MaxAdded == 4
\* longest batch passed to extendr
MaxBatch == 2
\* most appendr calls one writer makes between two drains
MaxWrites == 3

----------------------------------------------------------------------------
(* Rectangles *)

\* the rectangle of the "Hello better World!" text, appended before the loop
TextRect == <<40, 350>>

\* the screen rectangle of the tile at grid index (row, column), in tile units:
\* x grows with the column, y with the row
TileRect(row, column) == <<column, row>>

\* the rectangles the tracker-only specification appends
RectPool == {TextRect, TileRect(0, 0), TileRect(0, 1)}

----------------------------------------------------------------------------
(* Rectlist *)

\* Rectlist.__init__
NewRectlist == [items |-> <<>>, max_items |-> 0, added_items |-> 0]

\* A bug: the peak is only raised from zero.
update_max_once(rl) ==
    IF rl.max_items = 0
    THEN [rl EXCEPT !.max_items = Len(rl.items)]
    ELSE rl

update_max(rl) ==
    IF rl.max_items < Len(rl.items)
    THEN [rl EXCEPT !.max_items = Len(rl.items)]
    ELSE rl

\* A bug: added_items counts only the appends that raise the peak.
appendr_peak_only(rl, item) ==
    update_max([rl EXCEPT !.items = Append(@, item),
                          !.added_items = IF rl.max_items < Len(rl.items) + 1
                                          THEN @ + 1 ELSE @])

\* A bug: a rectangle that is already pending is not appended again.
appendr_unless_pending(rl, item) ==
    IF \E i \in DOMAIN rl.items : rl.items[i] = item
    THEN rl
    ELSE update_max([rl EXCEPT !.items = Append(@, item),
                               !.added_items = @ + 1])

appendr(rl, item) ==
    update_max([rl EXCEPT !.items = Append(@, item),
                          !.added_items = @ + 1])

\* A bug: a batch is counted as one append.
extendr_counts_one(rl, itr) ==
    update_max([rl EXCEPT !.items = @ \o itr,
                          !.added_items = @ + 1])

extendr(rl, itr) ==
    update_max([rl EXCEPT !.items = @ \o itr,
                          !.added_items = @ + Len(itr)])

\* A bug: reset_max zeroes added_items as well.
reset_max_both(rl) == [rl EXCEPT !.max_items = 0, !.added_items = 0]

reset_max(rl) == [rl EXCEPT !.max_items = 0]

reset_added(rl) == [rl EXCEPT !.added_items = 0]

\* A bug: reset empties the list as well.
reset_and_clear(rl) == [rl EXCEPT !.items = <<>>, !.max_items = 0, !.added_items = 0]

reset(rl) == reset_added(reset_max(rl))

\* del l[i] for i = 0: IndexError on an empty list
RECURSIVE del_first(_, _, _)
del_first(items, n, out) ==
    IF n = 0 THEN [items |-> items, out |-> out, raised |-> "none"]
    ELSE IF items = <<>> THEN [items |-> items, out |-> out, raised |-> "IndexError"]
    ELSE del_first(Tail(items), n - 1, Append(out, Head(items)))

\* A bug: the loop deletes the last item instead of the first.
RECURSIVE del_last(_, _, _)
del_last(items, n, out) ==
    IF n = 0 THEN [items |-> items, out |-> out, raised |-> "none"]
    ELSE IF items = <<>> THEN [items |-> items, out |-> out, raised |-> "IndexError"]
    ELSE del_last(SubSeq(items, 1, Len(items) - 1), n - 1,
                  Append(out, items[Len(items)]))

drain_from_back(rl) ==
    LET d == del_last(rl.items, Len(rl.items), <<>>)
    IN  [rl |-> [rl EXCEPT !.items = d.items], out |-> d.out, raised |-> d.raised]

\* A bug: the drain also zeroes the counters.
drain_and_reset(rl) ==
    LET d == del_first(rl.items, Len(rl.items), <<>>)
    IN  [rl |-> reset([rl EXCEPT !.items = d.items]), out |-> d.out, raised |-> d.raised]

\* for _ in range(len(l)): del l[0]
drain(rl) ==
    LET d == del_first(rl.items, Len(rl.items), <<>>)
    IN  [rl |-> [rl EXCEPT !.items = d.items], out |-> d.out, raised |-> d.raised]

----------------------------------------------------------------------------
(* The tracker on its own: any sequence of Rectlist calls and drains *)

Batches == UNION {[1..n -> RectPool] : n \in 0..MaxBatch}

\* the components that append to the shared list: the Playfield (in blyt) and
\* run_game itself (the text rectangle)
Writers == {"playfield", "text"}

\* no game loop is running
NoLoop ==
    /\ written = [w \in Writers |-> 0]
    /\ pygame_running = FALSE
    /\ pc = "idle"
    /\ events = <<>>
    /\ random_number = -1
    /\ gui = "unset"

InitRectlist ==
    /\ NoLoop
    /\ rects_to_update = NewRectlist
    /\ drained = <<>>
    /\ raised = "none"
    /\ pf = "none"
    /\ tile_array = <<>>
    /\ shape = <<0, 0>>
    /\ spawn_row = 0
    /\ spawn_column = 0

Appendr(item) ==
    /\ Len(rects_to_update.items) < MaxPending
    /\ rects_to_update.added_items < MaxAdded
    /\ rects_to_update' = appendr(rects_to_update, item)
    /\ raised' = "none"
    /\ UNCHANGED <<drained, field_vars, loop_vars>>

Extendr(itr) ==
    /\ Len(rects_to_update.items) + Len(itr) <= MaxPending
    /\ rects_to_update.added_items + Len(itr) <= MaxAdded
    /\ rects_to_update' = extendr(rects_to_update, itr)
    /\ raised' = "none"
    /\ UNCHANGED <<drained, field_vars, loop_vars>>

Drain ==
    LET d == drain(rects_to_update)
    IN  /\ rects_to_update' = d.rl
        /\ drained' = d.out
        /\ raised' = d.raised
        /\ UNCHANGED <<field_vars, loop_vars>>

ResetMax ==
    /\ rects_to_update' = reset_max(rects_to_update)
    /\ raised' = "none"
    /\ UNCHANGED <<drained, field_vars, loop_vars>>

ResetAdded ==
    /\ rects_to_update' = reset_added(rects_to_update)
    /\ raised' = "none"
    /\ UNCHANGED <<drained, field_vars, loop_vars>>

Reset ==
    /\ rects_to_update' = reset(rects_to_update)
    /\ raised' = "none"
    /\ UNCHANGED <<drained, field_vars, loop_vars>>

NextRectlist ==
    \/ \E item \in RectPool : Appendr(item)
    \/ \E itr \in Batches : Extendr(itr)
    \/ Drain
    \/ ResetMax
    \/ ResetAdded
    \/ Reset

SpecRectlist == InitRectlist /\ [][NextRectlist]_vars

----------------------------------------------------------------------------
(* Images and pieces *)

\* Playfield.empty_tile_img
EmptyTileImg == "bg"

\* the seven piece variants, in the order of the piece table
Variants == <<"I", "J", "L", "O", "S", "T", "Z">>

Mino(row, column) == [row |-> row, column |-> column]

\* A piece: its minoes relative to its origin, its spawn_offset and its image.
\* The I-piece lies flat with no offset; the two-row shapes are lifted by one row.
Tetromino(v) ==
    CASE v = "I" -> [minoes |-> <<Mino(0, 0), Mino(0, 1), Mino(0, 2), Mino(0, 3)>>,
                     spawn_offset |-> 0, img |-> "I"]
      [] v = "J" -> [minoes |-> <<Mino(0, 0), Mino(1, 0), Mino(1, 1), Mino(1, 2)>>,
                     spawn_offset |-> -1, img |-> "J"]
      [] v = "L" -> [minoes |-> <<Mino(0, 2), Mino(1, 0), Mino(1, 1), Mino(1, 2)>>,
                     spawn_offset |-> -1, img |-> "L"]
      [] v = "O" -> [minoes |-> <<Mino(0, 1), Mino(0, 2), Mino(1, 1), Mino(1, 2)>>,
                     spawn_offset |-> -1, img |-> "O"]
      [] v = "S" -> [minoes |-> <<Mino(0, 1), Mino(0, 2), Mino(1, 0), Mino(1, 1)>>,
                     spawn_offset |-> -1, img |-> "S"]
      [] v = "T" -> [minoes |-> <<Mino(0, 1), Mino(1, 0), Mino(1, 1), Mino(1, 2)>>,
                     spawn_offset |-> -1, img |-> "T"]
      [] v = "Z" -> [minoes |-> <<Mino(0, 0), Mino(0, 1), Mino(1, 1), Mino(1, 2)>>,
                     spawn_offset |-> -1, img |-> "Z"]

VariantSet == {Variants[i] : i \in 1..Len(Variants)}

----------------------------------------------------------------------------
(* Tile and Playfield.  A Playfield object is a record                     *)
(* [tile_array, shape, rects_to_update, spawn_row, spawn_column, raised];  *)
(* raised is the exception a method left the object with.                  *)

\* A bug: the slice starts one image too late, hold[2:].
is_empty_from_third(hold) == SubSeq(hold, 3, Len(hold)) = <<>>

\* Tile.is_empty: not bool(self.hold[1:])
is_empty(hold) == SubSeq(hold, 2, Len(hold)) = <<>>

\* numpy: an index i of an axis of length dim is valid for -dim <= i < dim
valid_index(i, dim) == i >= -dim /\ i < dim

\* numpy: a negative valid index counts from the end of the axis
wrap_index(i, dim) == IF i < 0 THEN i + dim ELSE i

\* A bug: a sequence longer than the grid is cut to the grid.
reshape_truncating(n, rows, columns) ==
    IF rows >= 0 /\ columns >= 0
    THEN [ok |-> rows * columns <= n, shape |-> <<rows, columns>>]
    ELSE [ok |-> FALSE, shape |-> <<0, 0>>]

\* numpy: ndarray.reshape(rows, columns) of a one-dimensional array of n items.
\* One dimension may be -1 and is then inferred from n and the other one.
reshape(n, rows, columns) ==
    CASE rows >= 0 /\ columns >= 0 ->
             [ok |-> rows * columns = n, shape |-> <<rows, columns>>]
      [] rows = -1 /\ columns > 0 ->
             [ok |-> n % columns = 0, shape |-> <<n \div columns, columns>>]
      [] rows > 0 /\ columns = -1 ->
             [ok |-> n % rows = 0, shape |-> <<rows, n \div rows>>]
      [] OTHER -> [ok |-> FALSE, shape |-> <<0, 0>>]

\* the grid indices in the order of the two nested range() loops
Cells(shp) ==
    [i \in 1..(shp[1] * shp[2]) |-> <<(i - 1) \div shp[2], (i - 1) % shp[2]>>]

\* A bug: the image is blitted and its rectangle tracked, but not put on hold.
blyt_no_hold(self, column, row, srf) ==
    IF ~(valid_index(row, self.shape[1]) /\ valid_index(column, self.shape[2]))
    THEN [self EXCEPT !.raised = "IndexError"]
    ELSE LET r == wrap_index(row, self.shape[1])
             c == wrap_index(column, self.shape[2])
         IN  [self EXCEPT !.rects_to_update = appendr(@, TileRect(r, c))]

\* A bug: the hold keeps the last image only.
blyt_replaces_hold(self, column, row, srf) ==
    IF ~(valid_index(row, self.shape[1]) /\ valid_index(column, self.shape[2]))
    THEN [self EXCEPT !.raised = "IndexError"]
    ELSE LET r == wrap_index(row, self.shape[1])
             c == wrap_index(column, self.shape[2])
         IN  [self EXCEPT !.rects_to_update = appendr(@, TileRect(r, c)),
                          !.tile_array[<<r, c>>] = <<srf>>]

blyt(self, column, row, srf) ==
    IF ~(valid_index(row, self.shape[1]) /\ valid_index(column, self.shape[2]))
    THEN [self EXCEPT !.raised = "IndexError"]
    ELSE LET r == wrap_index(row, self.shape[1])
             c == wrap_index(column, self.shape[2])
         IN  [self EXCEPT !.rects_to_update = appendr(@, TileRect(r, c)),
                          !.tile_array[<<r, c>>] = Append(@, srf)]

RECURSIVE blit_from(_, _, _, _)
blit_from(self, cells, i, img) ==
    IF i > Len(cells) \/ self.raised # "none" THEN self
    ELSE blit_from(blyt(self, cells[i][2], cells[i][1], img), cells, i + 1, img)

\* A bug: the loops start at 1, the first tile is never blitted.
blit_initial_images_skip_first(self, img) == blit_from(self, Cells(self.shape), 2, img)

blit_initial_images(self, img) == blit_from(self, Cells(self.shape), 1, img)

RECURSIVE clear_from(_, _, _)
clear_from(self, cells, i) ==
    IF i > Len(cells) \/ self.raised # "none" THEN self
    ELSE IF is_empty(self.tile_array[cells[i]])
         THEN clear_from(self, cells, i + 1)
         ELSE clear_from(blyt([self EXCEPT !.tile_array[cells[i]] = <<>>],
                              cells[i][2], cells[i][1], EmptyTileImg),
                         cells, i + 1)

\* A bug: the is_empty test is left out, every tile is reset and re-blitted.
RECURSIVE clear_every(_, _, _)
clear_every(self, cells, i) ==
    IF i > Len(cells) \/ self.raised # "none" THEN self
    ELSE clear_every(blyt([self EXCEPT !.tile_array[cells[i]] = <<>>],
                          cells[i][2], cells[i][1], EmptyTileImg),
                     cells, i + 1)

clear_all_tiles_no_skip(self) == clear_every(self, Cells(self.shape), 1)

\* A bug: the hold of a tile that is not empty is reset, the background image
\* is not blitted again.
clear_all_tiles_no_reblit(self) ==
    [self EXCEPT !.tile_array =
        [cell \in DOMAIN @ |-> IF is_empty(@[cell]) THEN @[cell] ELSE <<>>]]

clear_all_tiles(self) == clear_from(self, Cells(self.shape), 1)

RECURSIVE draw_from(_, _, _)
draw_from(self, tetromino, i) ==
    IF i > Len(tetromino.minoes) \/ self.raised # "none" THEN self
    ELSE draw_from(blyt(self,
                        self.spawn_column + tetromino.minoes[i].column,
                        self.spawn_row + tetromino.minoes[i].row + tetromino.spawn_offset,
                        tetromino.img),
                   tetromino, i + 1)

\* A bug: the spawn_offset of the piece is left out.
draw_tetromino_no_offset(self, tetromino) ==
    draw_from(self, [tetromino EXCEPT !.spawn_offset = 0], 1)

draw_tetromino(self, tetromino) == draw_from(self, tetromino, 1)

\* Playfield.__init__ on n tiles: the object it builds, or the exception it raises
new_playfield(rows, columns, n, img, rects, spawn_r, spawn_c) ==
    LET rs == reshape(n, rows, columns)
    IN  IF ~rs.ok
        THEN [tile_array |-> <<>>, shape |-> <<0, 0>>, rects_to_update |-> rects,
              spawn_row |-> 0, spawn_column |-> 0, raised |-> "ValueError"]
        ELSE blit_initial_images(
                 [tile_array |-> [cell \in (0..(rs.shape[1] - 1)) \X (0..(rs.shape[2] - 1)) |-> <<>>],
                  shape |-> rs.shape, rects_to_update |-> rects,
                  spawn_row |-> spawn_r, spawn_column |-> spawn_c, raised |-> "none"],
                 img)

----------------------------------------------------------------------------
(* The Playfield with its tracker: construction, blits, clears, piece      *)
(* placements and drains.  An exception ends the run.                      *)

\* most rows and columns of a grid
MaxRows == 4
MaxCols == 8
\* most rectangles appended after the construction
MaxBlits == 6

\* Basics/spawn_row and Basics/spawn_column of the default configuration
DefaultSpawnRow == 3
DefaultSpawnColumn == 4

\* the grids the blits and placements run on: the widest holds every piece at
\* the spawn anchor, the narrower ones cut pieces off at the right edge
FieldRows == MaxRows
FieldColumns == (MaxCols - 2)..MaxCols

\* the (column, row) pairs of the direct blits: the spawn cell, a negative
\* column, row = rows, column = columns of the widest grid, and a row below -rows
BlytArgs ==
    {<<DefaultSpawnColumn, DefaultSpawnRow>>, <<-1, 0>>, <<0, MaxRows>>, <<MaxCols, 0>>,
     <<0, -(MaxRows + 1)>>}
BlytImages == {"T"}

\* the Playfield object of the current state
Self ==
    [tile_array |-> tile_array, shape |-> shape, rects_to_update |-> rects_to_update,
     spawn_row |-> spawn_row, spawn_column |-> spawn_column, raised |-> raised]

\* the state after a method left the object as self
Becomes(self) ==
    /\ tile_array' = self.tile_array
    /\ shape' = self.shape
    /\ rects_to_update' = self.rects_to_update
    /\ spawn_row' = self.spawn_row
    /\ spawn_column' = self.spawn_column
    /\ raised' = self.raised

\* room for k more appended rectangles
Room(k) == rects_to_update.added_items + k <= shape[1] * shape[2] + MaxBlits

Init == InitRectlist

Construct(rows, columns, n, spawn_r, spawn_c) ==
    /\ pf = "none"
    /\ raised = "none"
    /\ LET self == new_playfield(rows, columns, n, EmptyTileImg, rects_to_update,
                                 spawn_r, spawn_c)
       IN  /\ Becomes(self)
           /\ pf' = IF self.raised = "none" THEN "ready" ELSE "failed"
    /\ UNCHANGED <<drained, loop_vars>>

Blyt(column, row, srf) ==
    /\ pf = "ready"
    /\ raised = "none"
    /\ Room(1)
    /\ Becomes(blyt(Self, column, row, srf))
    /\ UNCHANGED <<pf, drained, loop_vars>>

ClearAllTiles ==
    /\ pf = "ready"
    /\ raised = "none"
    /\ Room(Cardinality({cell \in DOMAIN tile_array : ~is_empty(tile_array[cell])}))
    /\ Becomes(clear_all_tiles(Self))
    /\ UNCHANGED <<pf, drained, loop_vars>>

DrawTetromino(v) ==
    /\ pf = "ready"
    /\ raised = "none"
    /\ Room(Len(Tetromino(v).minoes))
    /\ Becomes(draw_tetromino(Self, Tetromino(v)))
    /\ UNCHANGED <<pf, drained, loop_vars>>

DrainFrame ==
    /\ raised = "none"
    /\ Drain

\* Game.create_playfield_tiles yields rows * columns tiles
Next ==
    \/ \E columns \in FieldColumns :
          Construct(FieldRows, columns, FieldRows * columns,
                    DefaultSpawnRow, DefaultSpawnColumn)
    \/ \E arg \in BlytArgs, srf \in BlytImages : Blyt(arg[1], arg[2], srf)
    \/ ClearAllTiles
    \/ \E v \in VariantSet : DrawTetromino(v)
    \/ DrainFrame

Spec == Init /\ [][Next]_vars

----------------------------------------------------------------------------
(* Playfield.__init__ on its own, on the fresh tracker of Game.run_game:   *)
(* any rows, columns and number of tiles, and the drain that follows.      *)

NextConstruct ==
    \/ \E rows \in -1..MaxRows, columns \in -1..MaxCols, n \in 0..(MaxRows * MaxCols) :
          Construct(rows, columns, n, DefaultSpawnRow, DefaultSpawnColumn)
    \/ DrainFrame

SpecConstruct == Init /\ [][NextConstruct]_vars

----------------------------------------------------------------------------
(* Claims about the tracker, checked under SpecRectlist *)

PeakReset == ResetMax \/ Reset
AddReset == ResetAdded \/ Reset
AnyAppend == (\E item \in RectPool : Appendr(item)) \/ (\E itr \in Batches : Extendr(itr))

\* C1 as stated: in every reachable state max_items is at least the number of
\* pending rectangles, and no step other than a peak-reset lowers max_items.
C1_PeakAlwaysAtLeastPending ==
    /\ [](rects_to_update.max_items >= Len(rects_to_update.items))
    /\ [][~PeakReset => rects_to_update'.max_items >= rects_to_update.max_items]_vars

\* C1 amended: max_items is at least the number of pending rectangles after
\* every appendr and extendr; drain and reset_added keep it so; only a
\* peak-reset (reset_max, reset), which zeroes max_items even while rectangles
\* are pending, lowers max_items or leaves it below the pending count.
C1_PeakLoweredOnlyByReset ==
    [][ /\ (~PeakReset => rects_to_update'.max_items >= rects_to_update.max_items)
        /\ (AnyAppend => rects_to_update'.max_items >= Len(rects_to_update'.items))
        /\ (/\ ~PeakReset
            /\ rects_to_update.max_items >= Len(rects_to_update.items)
            => rects_to_update'.max_items >= Len(rects_to_update'.items))
        /\ (PeakReset => /\ rects_to_update'.max_items = 0
                         /\ rects_to_update'.items = rects_to_update.items)
      ]_vars

\* an append that did not raise the peak: the peak is above the pending count
C1_Witness ==
    /\ rects_to_update.items # <<>>
    /\ rects_to_update.max_items > Len(rects_to_update.items)

\* C2: every appendr raises added_items by exactly 1 (an extendr by the size of
\* its batch), whether or not the peak rises; a drain and a peak-reset leave it
\* alone; only reset_added and reset lower it, to 0.
C2_AddedCountsEveryAppend ==
    [][ /\ \A item \in RectPool :
              Appendr(item) =>
                  rects_to_update'.added_items = rects_to_update.added_items + 1
        /\ \A itr \in Batches :
              Extendr(itr) =>
                  rects_to_update'.added_items = rects_to_update.added_items + Len(itr)
        /\ (AddReset => rects_to_update'.added_items = 0)
        /\ (~AddReset =>
              /\ rects_to_update'.added_items >= rects_to_update.added_items
              /\ (rects_to_update'.added_items > rects_to_update.added_items
                    => rects_to_update'.added_items - rects_to_update.added_items
                         = Len(rects_to_update'.items) - Len(rects_to_update.items)))
      ]_vars

\* more appends counted than the peak: some append did not raise the peak
C2_Witness ==
    /\ rects_to_update.added_items > rects_to_update.max_items
    /\ rects_to_update.max_items > 0
    /\ rects_to_update.items # <<>>

\* C3: a drain deletes every pending rectangle, first-added first, leaves the
\* list empty and raises nothing; on an empty list it changes nothing.
C3_DrainEmptiesInOrder ==
    [][ Drain =>
          /\ rects_to_update'.items = <<>>
          /\ drained' = rects_to_update.items
          /\ raised' = "none"
          /\ (rects_to_update.items = <<>> => rects_to_update' = rects_to_update)
      ]_vars

\* a drain that removed two different rectangles
C3_Witness ==
    /\ rects_to_update.items = <<>>
    /\ Len(drained) >= 2
    /\ drained[1] # drained[2]

\* C4: a drain leaves added_items and max_items as they were.
C4_DrainKeepsCounters ==
    [][ Drain =>
          /\ rects_to_update'.added_items = rects_to_update.added_items
          /\ rects_to_update'.max_items = rects_to_update.max_items
      ]_vars

\* a drain has emptied the list and both counters still show the appends
C4_Witness ==
    /\ rects_to_update.items = <<>>
    /\ drained # <<>>
    /\ rects_to_update.added_items >= Len(drained)
    /\ rects_to_update.max_items >= Len(drained)
    /\ raised = "none"

----------------------------------------------------------------------------
(* Claims about Playfield.__init__, checked under SpecConstruct *)

ConstructInputs == (-1..MaxRows) \X (-1..MaxCols) \X (0..(MaxRows * MaxCols))

\* the step is the construction with the inputs in = <<rows, columns, n>>
\* (the first three conjuncts follow from the last and are tested first)
Constructs(in) ==
    /\ pf = "none"
    /\ pf' # "none"
    /\ LET rs == reshape(in[3], in[1], in[2])
       IN  IF rs.ok THEN pf' = "ready" /\ shape' = rs.shape ELSE pf' = "failed"
    /\ Construct(in[1], in[2], in[3], DefaultSpawnRow, DefaultSpawnColumn)

TileCount == shape[1] * shape[2]

\* C5: a construction on a fresh tracker that succeeds leaves one rectangle
\* per tile pending, rows * columns in all, and added_items = max_items =
\* rows * columns.
C5_ConstructionFillsTracker ==
    [][ (pf = "none" /\ pf' = "ready" /\ rects_to_update = NewRectlist) =>
        \A in \in ConstructInputs :
          Constructs(in) =>
              /\ (in[1] >= 0 /\ in[2] >= 0 => TileCount' = in[1] * in[2])
              /\ Len(rects_to_update'.items) = TileCount'
              /\ rects_to_update'.added_items = TileCount'
              /\ rects_to_update'.max_items = TileCount'
              /\ \A cell \in DOMAIN tile_array' :
                    Cardinality({i \in DOMAIN rects_to_update'.items :
                                    rects_to_update'.items[i] = TileRect(cell[1], cell[2])}) = 1
      ]_vars

\* a grid of several rows and columns, built on a fresh tracker and not yet drained
C5_Witness ==
    /\ pf = "ready"
    /\ shape = <<MaxRows, MaxCols>>
    /\ drained = <<>>
    /\ Len(rects_to_update.items) = MaxRows * MaxCols
    /\ rects_to_update.added_items = MaxRows * MaxCols
    /\ rects_to_update.max_items = MaxRows * MaxCols

\* C6: a construction with rows, columns >= 0 that succeeds builds exactly
\* rows * columns tiles, each holding the background image alone and empty.
C6_FreshGridIsEmpty ==
    [][ (pf = "none" /\ pf' = "ready") =>
        \A in \in ConstructInputs :
          (in[1] >= 0 /\ in[2] >= 0 /\ Constructs(in)) =>
              /\ shape' = <<in[1], in[2]>>
              /\ DOMAIN tile_array' = (0..(in[1] - 1)) \X (0..(in[2] - 1))
              /\ Cardinality(DOMAIN tile_array') = in[1] * in[2]
              /\ \A cell \in DOMAIN tile_array' :
                    /\ Len(tile_array'[cell]) = 1
                    /\ tile_array'[cell] = <<EmptyTileImg>>
                    /\ is_empty(tile_array'[cell])
      ]_vars

\* a fresh grid of the largest shape, every tile holding the background alone
C6_Witness ==
    /\ pf = "ready"
    /\ shape = <<MaxRows, MaxCols>>
    /\ Cardinality(DOMAIN tile_array) = MaxRows * MaxCols
    /\ \A cell \in DOMAIN tile_array : tile_array[cell] = <<EmptyTileImg>>

\* C10 as stated: a construction fails whenever the number of tiles differs
\* from rows * columns.
C10_MismatchAlwaysFails ==
    [][ \A in \in ConstructInputs :
          (Constructs(in) /\ in[3] # in[1] * in[2]) =>
              (pf' = "failed" /\ raised' # "none")
      ]_vars

\* numpy infers a dimension given as -1 from the number of items
Inferred(rows, columns, n) ==
    \/ rows = -1 /\ columns > 0 /\ n % columns = 0
    \/ columns = -1 /\ rows > 0 /\ n % rows = 0

\* C10 amended: a construction whose number of tiles differs from
\* rows * columns fails with an error, building no grid and leaving the
\* tracker as it was, unless one of rows, columns is -1 and the other is
\* positive and divides the number of tiles (the missing dimension is then
\* inferred); a construction that succeeds holds exactly the tiles supplied.
\* Stated per step: a construction builds a grid only from inputs that match
\* or are inferred, and then of exactly n tiles; one that fails raises
\* ValueError and changes neither grid nor tracker; and no input that matches
\* neither way builds a grid.
C10_MismatchFailsUnlessInferred ==
    [][ (pf = "none" /\ pf' # "none") =>
          /\ pf' = "ready" =>
                \A in \in ConstructInputs :
                   Constructs(in) =>
                      /\ (in[3] = in[1] * in[2] \/ Inferred(in[1], in[2], in[3]))
                      /\ Cardinality(DOMAIN tile_array') = in[3]
          /\ pf' = "failed" =>
                /\ raised' = "ValueError"
                /\ tile_array' = <<>>
                /\ rects_to_update' = rects_to_update
      ]_vars

\* a construction has failed and left no grid
C10_Witness ==
    /\ pf = "failed"
    /\ raised = "ValueError"
    /\ tile_array = <<>>

----------------------------------------------------------------------------
(* Claims about blits and placements, checked under Spec *)

InGrid(row, column) ==
    /\ row >= 0 /\ row < shape[1]
    /\ column >= 0 /\ column < shape[2]

\* the grid cell draw_tetromino addresses for mino i of a piece
Target(t, i) ==
    <<spawn_row + t.minoes[i].row + t.spawn_offset, spawn_column + t.minoes[i].column>>

Targets(t) == {Target(t, i) : i \in DOMAIN t.minoes}

\* C7: placing a piece whose k minoes address k distinct cells of the grid puts
\* the image of the piece on top of the hold of each of these k tiles, whatever
\* they held, changes no other tile, raises nothing, and appends the k
\* rectangles of these tiles to the tracker, in the order of the minoes.
C7_PlacementBlitsEachMino ==
    [][ \A v \in VariantSet :
          LET t == Tetromino(v)
              k == Len(t.minoes)
              n == Len(rects_to_update.items)
          IN  (/\ DrawTetromino(v)
               /\ \A i \in DOMAIN t.minoes : InGrid(Target(t, i)[1], Target(t, i)[2])
               /\ Cardinality(Targets(t)) = k) =>
                  /\ raised' = "none"
                  /\ \A cell \in DOMAIN tile_array :
                        tile_array'[cell] =
                            IF cell \in Targets(t)
                            THEN Append(tile_array[cell], t.img)
                            ELSE tile_array[cell]
                  /\ Len(rects_to_update'.items) = n + k
                  /\ SubSeq(rects_to_update'.items, 1, n) = rects_to_update.items
                  /\ \A i \in 1..k :
                        rects_to_update'.items[n + i] = TileRect(Target(t, i)[1], Target(t, i)[2])
                  /\ rects_to_update'.added_items = rects_to_update.added_items + k
      ]_vars

\* the I-piece placed at spawn_row 3, spawn_column 4 of a drained 4 x 8 grid
\* whose spawn cell already held a piece image: tiles (3,4)..(3,7) carry the
\* I image on top and exactly 4 rectangles are pending
C7_Witness ==
    /\ pf = "ready"
    /\ raised = "none"
    /\ shape = <<4, 8>>
    /\ spawn_row = 3 /\ spawn_column = 4
    /\ tile_array[<<3, 4>>] = <<EmptyTileImg, "T", "I">>
    /\ \A c \in 5..7 : tile_array[<<3, c>>] = <<EmptyTileImg, "I">>
    /\ rects_to_update.items =
         <<TileRect(3, 4), TileRect(3, 5), TileRect(3, 6), TileRect(3, 7)>>

\* C8 as stated: a blit addressed outside the grid raises an error and leaves
\* every hold and the tracker as they were.
C8_OutOfGridBlitRejected ==
    [][ \A arg \in BlytArgs, srf \in BlytImages :
          (Blyt(arg[1], arg[2], srf) /\ ~InGrid(arg[2], arg[1])) =>
              /\ raised' # "none"
              /\ tile_array' = tile_array
              /\ rects_to_update' = rects_to_update
      ]_vars

\* C9 as stated: a placement that raises has changed no hold and nothing of
\* the tracker.
C9_PlacementAllOrNothing ==
    [][ \A v \in VariantSet :
          (DrawTetromino(v) /\ raised' # "none") =>
              /\ tile_array' = tile_array
              /\ rects_to_update' = rects_to_update
      ]_vars

\* the tiles of the grid that are not empty
NonEmpty == {cell \in DOMAIN tile_array : ~is_empty(tile_array[cell])}

\* C11: on every reachable grid, clear_all_tiles called twice in a row leaves
\* every hold as one call leaves it, and the second call appends no rectangle
\* (it changes nothing of the tracker) and raises nothing.
C11_ClearIdempotent ==
    (pf = "ready" /\ raised = "none") =>
        LET once == clear_all_tiles(Self)
            twice == clear_all_tiles(once)
        IN  /\ twice.tile_array = once.tile_array
            /\ twice.rects_to_update = once.rects_to_update
            /\ twice.raised = "none"

\* a grid with two tiles that are not empty, one of them holding two images
\* above the background: the first clear has work to do
C11_Witness ==
    /\ pf = "ready"
    /\ raised = "none"
    /\ Cardinality(NonEmpty) = 2
    /\ \E cell \in NonEmpty : Len(tile_array[cell]) = 3
    /\ clear_all_tiles(Self).tile_array # tile_array

\* the grid cell a blit with the indices row, column addresses
Addressed(row, column) == <<wrap_index(row, shape[1]), wrap_index(column, shape[2])>>

\* C12: every blit onto a tile that does not raise puts its image on top of
\* the hold of that tile and changes no other hold, so that N blits with no
\* clear in between make the hold N images longer, in blit order; a tile with
\* an image above the background is not empty, a tile holding one image is.
C12_BlitsStackOnHold ==
    /\ [](pf = "ready" =>
            \A cell \in DOMAIN tile_array :
               /\ Len(tile_array[cell]) >= 1
               /\ is_empty(tile_array[cell]) <=> Len(tile_array[cell]) = 1)
    /\ [][ \A arg \in BlytArgs, srf \in BlytImages :
             (Blyt(arg[1], arg[2], srf) /\ raised' = "none") =>
                LET cell == Addressed(arg[2], arg[1])
                IN  /\ tile_array'[cell] = Append(tile_array[cell], srf)
                    /\ Len(tile_array'[cell]) = Len(tile_array[cell]) + 1
                    /\ ~is_empty(tile_array'[cell])
                    /\ \A other \in DOMAIN tile_array \ {cell} :
                          tile_array'[other] = tile_array[other]
         ]_vars

\* three blits onto the spawn tile with no clear in between, the second one by
\* the placement of the I-piece: the three images lie above the background in
\* blit order
C12_Witness ==
    /\ pf = "ready"
    /\ raised = "none"
    /\ tile_array[<<DefaultSpawnRow, DefaultSpawnColumn>>] = <<EmptyTileImg, "T", "I", "T">>
    /\ ~is_empty(tile_array[<<DefaultSpawnRow, DefaultSpawnColumn>>])

\* the rectangles of the tiles that are not empty, in row-major order
RECURSIVE NonEmptyRects(_, _)
NonEmptyRects(cells, i) ==
    IF i > Len(cells) THEN <<>>
    ELSE (IF cells[i] \in NonEmpty THEN <<TileRect(cells[i][1], cells[i][2])>> ELSE <<>>)
         \o NonEmptyRects(cells, i + 1)

\* C19: after clear_all_tiles every tile holds the background image alone and
\* is empty; the call raises nothing and appends one rectangle for each tile
\* that was not empty before it, in row-major order, and none for the others.
C19_ClearResetsNonEmptyTiles ==
    [][ ClearAllTiles =>
          /\ raised' = "none"
          /\ \A cell \in DOMAIN tile_array' :
                /\ tile_array'[cell] = <<EmptyTileImg>>
                /\ is_empty(tile_array'[cell])
          /\ DOMAIN tile_array' = DOMAIN tile_array
          /\ rects_to_update'.items =
                rects_to_update.items \o NonEmptyRects(Cells(shape), 1)
          /\ Len(rects_to_update'.items) - Len(rects_to_update.items) = Cardinality(NonEmpty)
          /\ rects_to_update'.added_items =
                rects_to_update.added_items + Cardinality(NonEmpty)
      ]_vars

\* a drained grid that held images on its last tile of row 0 and on the spawn
\* tile has been cleared: every tile is empty and the rectangles of exactly
\* these two tiles are pending, in row-major order
C19_Witness ==
    /\ pf = "ready"
    /\ raised = "none"
    /\ \A cell \in DOMAIN tile_array : tile_array[cell] = <<EmptyTileImg>>
    /\ rects_to_update.items =
          <<TileRect(0, shape[2] - 1), TileRect(DefaultSpawnRow, DefaultSpawnColumn)>>

----------------------------------------------------------------------------
(* Further claims about Rectlist, checked under SpecRectlist *)

\* appendr called once for each rectangle of itr, in order
RECURSIVE appendr_each(_, _)
appendr_each(rl, itr) ==
    IF itr = <<>> THEN rl
    ELSE appendr_each(appendr(rl, Head(itr)), Tail(itr))

\* C13 as stated: from every reachable tracker state and for every batch,
\* extendr leaves the tracker (pending sequence, added_items, max_items) as the
\* appendr calls for the rectangles of the batch, made in order, leave it; so
\* does every extendr step taken.
C13_ExtendrIsAppendrEach ==
    /\ [](\A itr \in Batches :
             extendr(rects_to_update, itr) = appendr_each(rects_to_update, itr))
    /\ [][ \A itr \in Batches :
             Extendr(itr) => rects_to_update' = appendr_each(rects_to_update, itr)
         ]_vars

\* C13 amended: extendr with a batch leaves the tracker as the appendr calls
\* for its rectangles, made in order, leave it, whenever the batch is not empty
\* or max_items is at least the pending count; extendr with an empty batch on
\* a tracker whose max_items is below the pending count (after a peak-reset
\* with rectangles pending) raises max_items to the pending count, while zero
\* appendr calls leave it as it is.
C13_NonEmptyExtendrIsAppendrEach ==
    /\ [](\A itr \in Batches :
             /\ (itr # <<>> \/ rects_to_update.max_items >= Len(rects_to_update.items))
                   => extendr(rects_to_update, itr) = appendr_each(rects_to_update, itr)
             /\ itr = <<>> =>
                   /\ extendr(rects_to_update, itr) = update_max(rects_to_update)
                   /\ appendr_each(rects_to_update, itr) = rects_to_update)
    /\ [][ \A itr \in Batches :
             (Extendr(itr) /\ itr # <<>>) =>
                 rects_to_update' = appendr_each(rects_to_update, itr)
         ]_vars

\* a batch of two rectangles extended onto a drained tracker whose peak was 3
\* and whose added_items had been reset: the batch is counted, the peak stays
C13_Witness ==
    /\ Len(rects_to_update.items) = 2
    /\ rects_to_update.items[1] # rects_to_update.items[2]
    /\ rects_to_update.added_items = 2
    /\ rects_to_update.max_items = 3
    /\ Len(drained) = 3

\* C14: reset_max, reset_added and reset leave the pending rectangles as they
\* are; reset_max zeroes max_items and leaves added_items, reset_added zeroes
\* added_items and leaves max_items, reset zeroes both; a drain right after
\* any of them still deletes every rectangle that was pending before it.
C14_ResetsKeepPending ==
    [][ /\ (ResetMax => /\ rects_to_update'.max_items = 0
                        /\ rects_to_update'.added_items = rects_to_update.added_items)
        /\ (ResetAdded => /\ rects_to_update'.added_items = 0
                          /\ rects_to_update'.max_items = rects_to_update.max_items)
        /\ (Reset => /\ rects_to_update'.max_items = 0
                     /\ rects_to_update'.added_items = 0)
        /\ ((ResetMax \/ ResetAdded \/ Reset) =>
               /\ rects_to_update'.items = rects_to_update.items
               /\ drained' = drained
               /\ drain(rects_to_update').out = rects_to_update.items)
      ]_vars

\* reset_max on a tracker with rectangles pending: the peak is 0, the count of
\* appends and the pending rectangles are still there
C14_Witness ==
    /\ Len(rects_to_update.items) >= 2
    /\ rects_to_update.max_items = 0
    /\ rects_to_update.added_items >= 2

----------------------------------------------------------------------------
(* Several writers of the one shared Rectlist: the Playfield appends the   *)
(* rectangles of the tiles it blits, run_game appends the rectangle of the *)
(* text it renders.  Python runs the calls one after the other, so the     *)
(* writers interleave call by call, in any order, and the frame loop       *)
(* drains the list whenever its turn comes.                                *)

\* the rectangle writer w passes to its appendr call number j + 1
WriterRect(w, j) == IF w = "playfield" THEN TileRect(0, j) ELSE TextRect

Write(w) ==
    /\ written[w] < MaxWrites
    /\ rects_to_update.added_items < Cardinality(Writers) * MaxWrites
    /\ rects_to_update' = appendr(rects_to_update, WriterRect(w, written[w]))
    /\ written' = [written EXCEPT ![w] = @ + 1]
    /\ raised' = "none"
    /\ UNCHANGED <<drained, field_vars, run_vars>>

DrainWritten ==
    LET d == drain(rects_to_update)
    IN  /\ rects_to_update' = d.rl
        /\ drained' = d.out
        /\ raised' = d.raised
        /\ written' = [w \in Writers |-> 0]
        /\ UNCHANGED <<field_vars, run_vars>>

NextWriters ==
    \/ \E w \in Writers : Write(w)
    \/ DrainWritten

SpecWriters == InitRectlist /\ [][NextWriters]_vars

\* the appendr calls made since the last drain
Written == written["playfield"] + written["text"]

\* C16: however the appendr calls of the writers interleave between two
\* drains, the tracker holds one rectangle for each call made since the last
\* drain, those of each writer in the order it made them, and max_items is at
\* least the pending count; every appendr raises added_items by exactly one,
\* and the next drain deletes all these rectangles, first-added first, leaving
\* the counters as they were.
C16_InterleavedWritersAllPresented ==
    /\ [](/\ Len(rects_to_update.items) = Written
          /\ rects_to_update.max_items >= Len(rects_to_update.items)
          /\ SelectSeq(rects_to_update.items, LAMBDA r : r # TextRect)
                = [j \in 1..written["playfield"] |-> WriterRect("playfield", j - 1)]
          /\ Len(SelectSeq(rects_to_update.items, LAMBDA r : r = TextRect))
                = written["text"])
    /\ [][ /\ \A w \in Writers :
                Write(w) =>
                   /\ rects_to_update'.items =
                         Append(rects_to_update.items, WriterRect(w, written[w]))
                   /\ rects_to_update'.added_items = rects_to_update.added_items + 1
           /\ DrainWritten =>
                   /\ drained' = rects_to_update.items
                   /\ Len(drained') = Written
                   /\ rects_to_update'.items = <<>>
                   /\ rects_to_update'.added_items = rects_to_update.added_items
                   /\ rects_to_update'.max_items = rects_to_update.max_items
                   /\ raised' = "none"
         ]_vars

\* four appendr calls, two of each writer, interleaved playfield, text, text,
\* playfield, have been drained in that order and are all counted
C16_Witness ==
    /\ rects_to_update.items = <<>>
    /\ drained = <<TileRect(0, 0), TextRect, TextRect, TileRect(0, 1)>>
    /\ rects_to_update.added_items = 4
    /\ rects_to_update.max_items = 4

----------------------------------------------------------------------------
(* Game.run_game: the main loop.  The program deletes config.ini before it *)
(* reads it, so every session runs on the default configuration, whose     *)
(* grid holds every piece at the spawn anchor; here the grid has MaxRows   *)
(* rows and MaxCols columns.  Each iteration presents and drains the       *)
(* tracker, then takes the batch of events pygame.event.get() returns and  *)
(* handles them one by one.                                                *)

\* most events one pygame.event.get() returns
MaxEvents == 2

\* the piece each keypad key places
KeypadPiece ==
    [K_KP1 |-> "I", K_KP2 |-> "J", K_KP3 |-> "L", K_KP4 |-> "O",
     K_KP5 |-> "S", K_KP6 |-> "T", K_KP7 |-> "Z"]

\* the types of the events the window system delivers: closing the window,
\* the timer's TICK, a key going down, and a key going up as an event no
\* handler reads.  An event is represented by its type; which key went down
\* is drawn when the handler reads event.key.
EventPool == {"QUIT", "TICK", "KEYDOWN", "KEYUP"}

EventBatches == UNION {[1..n -> EventPool] : n \in 0..MaxEvents}

\* A bug: the random source draws from 0..7.
spawn_next_to_seven == 0..7

\* the values Unpacker(no_rules, randint06).spawn_next() can return: the
\* no-rules policy passes on what the random source over 0..6 draws
spawn_next == 0..6

\* tetrominoes.mapping[i]: the piece variant of index i, or a LookupError
mapping(i) ==
    IF i \in 0..(Len(Variants) - 1)
    THEN [ok |-> TRUE, variant |-> Variants[i + 1]]
    ELSE [ok |-> FALSE, variant |-> "none"]

\* the session of run_game when it enters the main loop: a fresh Rectlist, the
\* Playfield of the configuration built on it, the text rectangle appended
InitGame ==
    LET self == new_playfield(MaxRows, MaxCols, MaxRows * MaxCols, EmptyTileImg,
                              NewRectlist, DefaultSpawnRow, DefaultSpawnColumn)
    IN  /\ rects_to_update = appendr(self.rects_to_update, TextRect)
        /\ tile_array = self.tile_array
        /\ shape = self.shape
        /\ spawn_row = self.spawn_row
        /\ spawn_column = self.spawn_column
        /\ raised = "none"
        /\ pf = "ready"
        /\ drained = <<>>
        /\ written = [w \in Writers |-> 0]
        /\ pygame_running = TRUE
        /\ pc = "loop"
        /\ events = <<>>
        /\ random_number = -1
        /\ gui = "unset"

\* the images on hold above the background, over all tiles
RECURSIVE LayersFrom(_, _)
LayersFrom(cells, i) ==
    IF i > Len(cells) THEN 0
    ELSE Len(tile_array[cells[i]]) - 1 + LayersFrom(cells, i + 1)

Layers == LayersFrom(Cells(shape), 1)

\* the rectangles appended since the last TICK, or since the loop began: the
\* timer posts a TICK every 1000 ms, which bounds them
SinceTick ==
    IF rects_to_update.max_items > shape[1] * shape[2]
    THEN rects_to_update.added_items - (shape[1] * shape[2] + 1)
    ELSE rects_to_update.added_items

\* room for a placement of k minoes
PlaceRoom(k) == Layers + k <= MaxBlits /\ SinceTick + k <= MaxBlits

\* room for a clear
ClearRoom ==
    SinceTick + Cardinality({cell \in DOMAIN tile_array : ~is_empty(tile_array[cell])})
        <= MaxBlits

\* A bug: the break is left out, the for loop goes on after pygame_running
\* was set to False.
after_event_no_break(running, rest) ==
    IF rest = <<>> THEN "loop" ELSE "events"

\* where the program stands after one event was handled: at the while test
\* after a break or at the end of the batch, at the next event otherwise
after_event(running, rest) ==
    IF ~running \/ rest = <<>> THEN "loop" ELSE "events"

\* A bug: the playfield is cleared before the modifiers are read.
key_q_clears_first(self, ctrl) ==
    [self |-> clear_all_tiles(self), running |-> ~ctrl]

\* the K_q branch: Ctrl held ends the loop, no Ctrl clears the playfield
key_q(self, ctrl) ==
    IF ctrl
    THEN [self |-> self, running |-> FALSE]
    ELSE [self |-> clear_all_tiles(self), running |-> TRUE]

\* the for loop is at an event of the given type
At(type) ==
    /\ pc = "events"
    /\ events # <<>>
    /\ Head(events) = type

\* the event was handled, leaving the Playfield as self and the flag as running;
\* an exception leaves run_game
Handled(self, running) ==
    /\ Becomes(self)
    /\ pygame_running' = running
    /\ events' = Tail(events)
    /\ pc' = IF self.raised # "none" THEN "crashed" ELSE after_event(running, Tail(events))
    /\ UNCHANGED <<pf, drained, written, gui>>

\* pygame.display.update, the del loop, clock.tick and pygame.event.get
Frame ==
    /\ pc = "loop"
    /\ pygame_running
    /\ LET d == drain(rects_to_update)
       IN  /\ rects_to_update' = d.rl
           /\ drained' = d.out
           /\ raised' = d.raised
    /\ \E batch \in EventBatches :
          /\ events' = batch
          /\ pc' = IF batch = <<>> THEN "loop" ELSE "events"
    /\ UNCHANGED <<field_vars, written, pygame_running, random_number, gui>>

Quit ==
    /\ At("QUIT")
    /\ Handled(Self, FALSE)
    /\ UNCHANGED random_number

\* event.key is K_q; ctrl is what pygame.key.get_mods() tells of Ctrl
KeyQ(ctrl) ==
    /\ At("KEYDOWN")
    /\ ctrl \/ ClearRoom
    /\ LET r == key_q(Self, ctrl)
       IN  Handled(r.self, r.running)
    /\ UNCHANGED random_number

\* event.key is one of K_KP1 .. K_KP7
KeyKeypad(key) ==
    /\ At("KEYDOWN")
    /\ LET t == Tetromino(KeypadPiece[key])
       IN  /\ PlaceRoom(Len(t.minoes))
           /\ Handled(draw_tetromino(Self, t), TRUE)
    /\ UNCHANGED random_number

\* event.key is K_n
KeyN ==
    /\ At("KEYDOWN")
    /\ PlaceRoom(4)
    /\ \E n \in spawn_next :
          /\ random_number' = n
          /\ IF mapping(n).ok
             THEN Handled(draw_tetromino(Self, Tetromino(mapping(n).variant)), TRUE)
             ELSE Handled([Self EXCEPT !.raised = "LookupError"], TRUE)

Tick ==
    /\ At("TICK")
    /\ Handled([Self EXCEPT !.rects_to_update = reset(@)], TRUE)
    /\ UNCHANGED random_number

\* an event no branch of the loop reads: a key going up, or another key
\* going down
Ignored ==
    /\ At("KEYUP") \/ At("KEYDOWN")
    /\ Handled(Self, TRUE)
    /\ UNCHANGED random_number

\* the while test fails: pygame.quit()
Exit ==
    /\ pc = "loop"
    /\ ~pygame_running
    /\ pc' = "done"
    /\ UNCHANGED <<tracker_vars, raised, field_vars, written, pygame_running,
                   events, random_number, gui>>

NextGame ==
    \/ Frame
    \/ Quit
    \/ \E ctrl \in BOOLEAN : KeyQ(ctrl)
    \/ \E key \in DOMAIN KeypadPiece : KeyKeypad(key)
    \/ KeyN
    \/ Tick
    \/ Ignored
    \/ Exit

SpecGame == InitGame /\ [][NextGame]_vars

----------------------------------------------------------------------------
(* Claims about the main loop, checked under SpecGame *)

\* the step handles a quit signal: the window was closed, or Q went down with
\* Ctrl held
QuitSignal == Quit \/ KeyQ(TRUE)

\* the step handles any other event
OtherEvent ==
    \/ KeyQ(FALSE)
    \/ \E key \in DOMAIN KeypadPiece : KeyKeypad(key)
    \/ KeyN
    \/ Tick
    \/ Ignored

\* C15: the step that handles a window-close event or a Ctrl+Q key-down sets
\* pygame_running to False, changes neither grid nor tracker and leaves the
\* for loop for the while test; from then on the only step is the exit of the
\* loop, which is possible, dispatches none of the events left in the batch
\* and changes nothing else, and after it nothing happens.  The step that
\* handles any other event (plain Q, another key, TICK) leaves pygame_running
\* True and the program inside the loop.
C15_LoopEndsOnQuitSignalOnly ==
    /\ []((~pygame_running /\ pc # "done") => (pc = "loop" /\ ENABLED Exit))
    /\ [][ /\ QuitSignal =>
                /\ ~pygame_running'
                /\ pc' = "loop"
                /\ tile_array' = tile_array
                /\ rects_to_update' = rects_to_update
           /\ (~pygame_running /\ pc # "done") =>
                /\ pc' = "done"
                /\ events' = events
                /\ tile_array' = tile_array
                /\ rects_to_update' = rects_to_update
                /\ drained' = drained
                /\ ~pygame_running'
           /\ pc = "done" => UNCHANGED vars
           /\ (OtherEvent \/ Frame) =>
                /\ pygame_running'
                /\ pc' \in {"loop", "events"}
                /\ raised' = "none"
           /\ (pygame_running /\ ~pygame_running') => QuitSignal
           /\ (pc # "done" /\ pc' = "done") => ~pygame_running
         ]_vars

\* the loop was left by a quit signal handled before the last event of its
\* batch, with a piece on the grid: the event left was not dispatched
C15_Witness ==
    /\ pc = "done"
    /\ ~pygame_running
    /\ events # <<>>
    /\ NonEmpty # {}

\* C17: every spawn_next() of the K_n handler returns an index from 0 to 6,
\* the lookup of the index in the piece table succeeds, the piece of that
\* index is placed and nothing is raised, whatever was drawn before.
C17_SpawnIndexInRange ==
    /\ [](random_number \in -1..6)
    /\ [][ KeyN =>
             /\ random_number' \in 0..(Len(Variants) - 1)
             /\ mapping(random_number').ok
             /\ raised' = "none"
             /\ pc' # "crashed"
             /\ Becomes(draw_tetromino(Self, Tetromino(Variants[random_number' + 1])))
         ]_vars

\* spawn_next() returned the last index, 6: the four minoes of the Z-piece are
\* on the grid and nothing was raised
C17_Witness ==
    /\ random_number = 6
    /\ raised = "none"
    /\ pc # "crashed"
    /\ Cardinality({cell \in DOMAIN tile_array :
                       tile_array[cell] = <<EmptyTileImg, "Z">>}) = 4

\* C20: a Q key-down without Ctrl leaves every tile empty, as clear_all_tiles
\* leaves the grid, and the program inside the loop with pygame_running True;
\* a Q key-down with Ctrl changes no tile and nothing of the tracker, sets
\* pygame_running to False and leaves the for loop, and the loop then exits.
C20_QClearsCtrlQQuits ==
    [][ /\ KeyQ(FALSE) =>
             /\ Becomes(clear_all_tiles(Self))
             /\ \A cell \in DOMAIN tile_array' : is_empty(tile_array'[cell])
             /\ pygame_running'
             /\ pc' \in {"loop", "events"}
        /\ KeyQ(TRUE) =>
             /\ tile_array' = tile_array
             /\ rects_to_update' = rects_to_update
             /\ ~pygame_running'
             /\ pc' = "loop"
        /\ (~pygame_running /\ pc = "loop") => (pc' = "done" /\ tile_array' = tile_array)
      ]_vars

\* a plain Q has cleared a piece in this iteration: every tile is empty, the
\* four rectangles of the piece are pending again and the loop is running
C20_Witness ==
    /\ pygame_running
    /\ pc \in {"loop", "events"}
    /\ \A cell \in DOMAIN tile_array : is_empty(tile_array[cell])
    /\ Len(rects_to_update.items) = 4
    /\ \E i \in DOMAIN drained : drained[i] = TileRect(DefaultSpawnRow, DefaultSpawnColumn)

----------------------------------------------------------------------------
(* run and Game of src/absolutris/game.py: the choice of the gui and the   *)
(* loop of run_gui, which handles the two quit signals and nothing else.   *)

\* the gui names Game.__init__ knows
Recognised == {"default", "debug", "m"}

\* the values of config.cli.gui: the names it knows, other names, and None
GuiNames == Recognised \cup {"curses", "", "None"}

\* the types of the events run_gui is delivered: it sets no timer
GuiEventPool == {"QUIT", "KEYDOWN", "KEYUP", "MOUSEMOTION"}

GuiEventBatches == UNION {[1..n -> GuiEventPool] : n \in 0..MaxEvents}

\* A bug: a name that is not known falls back to the default gui.
game_init_falls_back(name) == "none"

\* Game.__init__: the exception it raises for the gui name, or "none"
game_init(name) ==
    IF name \in Recognised THEN "none" ELSE "GuiNotImplemented"

InitGui ==
    /\ rects_to_update = NewRectlist
    /\ drained = <<>>
    /\ raised = "none"
    /\ pf = "none"
    /\ tile_array = <<>>
    /\ shape = <<0, 0>>
    /\ spawn_row = 0
    /\ spawn_column = 0
    /\ written = [w \in Writers |-> 0]
    /\ pygame_running = FALSE
    /\ pc = "run"
    /\ events = <<>>
    /\ random_number = -1
    /\ gui \in GuiNames

gui_unchanged == UNCHANGED <<tracker_vars, field_vars, written, random_number, gui>>

\* run with config.cli.gui None: no Game, no window, no loop
RunNoGui ==
    /\ pc = "run"
    /\ gui = "None"
    /\ pc' = "done"
    /\ UNCHANGED <<raised, pygame_running, events>>
    /\ gui_unchanged

\* game = Game(config)
GameInit ==
    /\ pc = "run"
    /\ gui # "None"
    /\ raised' = game_init(gui)
    /\ pc' = IF game_init(gui) = "none" THEN "constructed" ELSE "crashed"
    /\ UNCHANGED <<pygame_running, events>>
    /\ gui_unchanged

\* run_gui up to the loop: pygame.init(), setup_game_window()
SetupWindow ==
    /\ pc = "constructed"
    /\ pygame_running' = TRUE
    /\ pc' = "loop"
    /\ UNCHANGED <<raised, events>>
    /\ gui_unchanged

GuiGet ==
    /\ pc = "loop"
    /\ pygame_running
    /\ \E batch \in GuiEventBatches :
          /\ events' = batch
          /\ pc' = IF batch = <<>> THEN "loop" ELSE "events"
    /\ UNCHANGED <<raised, pygame_running>>
    /\ gui_unchanged

\* the event was handled and left the flag as running
GuiHandled(running) ==
    /\ pygame_running' = running
    /\ events' = Tail(events)
    /\ pc' = after_event(running, Tail(events))
    /\ UNCHANGED raised
    /\ gui_unchanged

GuiQuit ==
    /\ At("QUIT")
    /\ GuiHandled(FALSE)

\* event.key is K_q; ctrl is what pygame.key.get_mods() tells of Ctrl
GuiKeyQ(ctrl) ==
    /\ At("KEYDOWN")
    /\ GuiHandled(~ctrl)

\* an event of another type, or another key going down
GuiIgnored ==
    /\ At("KEYUP") \/ At("MOUSEMOTION") \/ At("KEYDOWN")
    /\ GuiHandled(TRUE)

GuiExit ==
    /\ pc = "loop"
    /\ ~pygame_running
    /\ pc' = "done"
    /\ UNCHANGED <<raised, pygame_running, events>>
    /\ gui_unchanged

NextGui ==
    \/ RunNoGui
    \/ GameInit
    \/ SetupWindow
    \/ GuiGet
    \/ GuiQuit
    \/ \E ctrl \in BOOLEAN : GuiKeyQ(ctrl)
    \/ GuiIgnored
    \/ GuiExit

SpecGui == InitGui /\ [][NextGui]_vars

----------------------------------------------------------------------------
(* Claims about the choice of the gui, checked under SpecGui *)

\* C18: the gui name is read once, by Game.__init__, and never changes; for a
\* name other than "default", "debug" and "m" Game.__init__ raises
\* GuiNotImplemented and the program stops there: no window is set up,
\* pygame_running is never set and no batch of events is taken; for each of
\* the three names it raises nothing and the program goes on to set up the
\* window.
C18_UnknownGuiFailsFast ==
    /\ [](/\ (gui \notin Recognised /\ gui # "None") =>
                /\ pc \in {"run", "crashed"}
                /\ ~pygame_running
                /\ events = <<>>
          /\ raised = "GuiNotImplemented" <=> pc = "crashed"
          /\ gui \in Recognised => raised = "none")
    /\ [][ /\ gui' = gui
           /\ GameInit =>
                IF gui \in Recognised
                THEN raised' = "none" /\ pc' = "constructed"
                ELSE raised' = "GuiNotImplemented" /\ pc' = "crashed"
           /\ pc = "crashed" => UNCHANGED vars
           /\ (SetupWindow \/ GuiGet) => gui \in Recognised
         ]_vars

\* Game.__init__ has raised GuiNotImplemented for the name "curses": no
\* window, no loop
C18_Witness ==
    /\ gui = "curses"
    /\ raised = "GuiNotImplemented"
    /\ pc = "crashed"
    /\ ~pygame_running

----------------------------------------------------------------------------
(* The presentation of the rectangles, checked under SpecGame *)

\* C21: the step that begins an iteration of the loop deletes from the
\* tracker exactly the rectangles it has just passed to the display update,
\* in their order, and leaves the tracker empty for the dispatch of the batch
\* it takes; no other step removes or reorders a pending rectangle, so what
\* the handlers of a batch append is still pending, behind what was pending
\* before, when the next iteration presents it; the exit of the loop after a
\* quit presents nothing and leaves the pending rectangles where they are.
C21_NoRectangleDropped ==
    [][ /\ Frame =>
             /\ drained' = rects_to_update.items
             /\ rects_to_update'.items = <<>>
             /\ raised' = "none"
        /\ ~Frame =>
             /\ drained' = drained
             /\ Len(rects_to_update'.items) >= Len(rects_to_update.items)
             /\ SubSeq(rects_to_update'.items, 1, Len(rects_to_update.items))
                   = rects_to_update.items
        /\ Exit => rects_to_update' = rects_to_update
      ]_vars

\* a piece was placed and a TICK reset the counters in one batch; the next
\* iteration has presented the four rectangles of the piece all the same
C21_Witness ==
    /\ pygame_running
    /\ rects_to_update.items = <<>>
    /\ rects_to_update.added_items = 0
    /\ Len(drained) = 4
    /\ {drained[i] : i \in DOMAIN drained} = {TileRect(cell[1], cell[2]) : cell \in NonEmpty}
    /\ Cardinality(NonEmpty) = 4

----------------------------------------------------------------------------
(* The hold of every tile, checked under Spec *)

\* C22: in every state with a grid, after the construction and after any
\* blits, placements and clears, the hold of every tile has at least one image
\* and its first image is the background; a tile is empty exactly when its
\* hold is the background image alone.
C22_HoldStartsWithBackground ==
    pf = "ready" =>
        \A cell \in DOMAIN tile_array :
           /\ Len(tile_array[cell]) >= 1
           /\ tile_array[cell][1] = EmptyTileImg
           /\ is_empty(tile_array[cell]) <=> tile_array[cell] = <<EmptyTileImg>>

\* on a drained 4 x 8 grid the spawn tile was blitted and cleared and the
\* I-piece placed: the spawn tile holds the I image above the background and
\* is not empty, the first tile holds the background alone and is empty
C22_Witness ==
    /\ pf = "ready"
    /\ raised = "none"
    /\ shape = <<4, 8>>
    /\ Len(rects_to_update.items) = 6
    /\ rects_to_update.items[1] = TileRect(DefaultSpawnRow, DefaultSpawnColumn)
    /\ rects_to_update.items[2] = TileRect(DefaultSpawnRow, DefaultSpawnColumn)
    /\ tile_array[<<DefaultSpawnRow, DefaultSpawnColumn>>] = <<EmptyTileImg, "I">>
    /\ ~is_empty(tile_array[<<DefaultSpawnRow, DefaultSpawnColumn>>])
    /\ is_empty(tile_array[<<0, 0>>])

====
